---------------------------- MODULE Spec2Model ----------------------------
(***************************************************************************)
(* A model of src/fetch_multi.py: RouteBuilder.run and the handlers it     *)
(* dispatches to, the expansion engine, the sanitizers, the artifact       *)
(* registry and the retried fetch.                                         *)
(*                                                                         *)
(* Text is a sequence of text units.  A unit is one character wherever the *)
(* program looks inside a string (names, URLs, blocklist rules); literals  *)
(* the program only concatenates (directories, file suffixes, template     *)
(* prefixes, messages) are kept as one unit.  Python's None is the value   *)
(* None below; a dict is a function from its keys.                         *)
(***************************************************************************)
EXTENDS Integers, Sequences, FiniteSets, TLC

VARIABLES
    pipelines,          \* self.pipelines: the configured list of steps
    warehouse_priority, \* self.config.get("warehouse_priority")
    filters,            \* self.filters
    domestic,           \* self.domestic
    pc,                 \* where run() is: "init", "loop", "done", "raised"
    idx,                \* 1-based index of the step the for loop is at
    context,            \* self.context: pipeline id -> address of its payload object
    payload_heap,       \* the payload objects, by address
    entry_heap,         \* the entry objects, by address
    pipeline_records,   \* self.pipeline_records
    artifacts,          \* self.artifacts
    files,              \* the files under repo_root: path -> content last written
    writes,             \* the paths written, in the order of the writes
    raised,             \* per executed step: did _dispatch_pipeline raise, and with what
    returned,           \* per executed step: the payload _dispatch_pipeline returned
    committed,          \* per finished step: its payload at the end of its iteration
    run_error,          \* the exception that left run(), None when there is none
    read,               \* per executed step: what its source and the level-2 fetches gave
    fetch,              \* the state of one call of _fetch_json
    call                \* the state of one call of a sanitizer

vars == <<pipelines, warehouse_priority, filters, domestic, pc, idx, context,
          payload_heap, entry_heap, pipeline_records, artifacts, files, writes, raised, returned,
          committed, run_error, read, fetch, call>>

runVars == <<pipelines, warehouse_priority, filters, domestic, pc, idx, context,
             payload_heap, entry_heap, pipeline_records, artifacts, files, writes, raised, returned,
             committed, run_error, read>>

-----------------------------------------------------------------------------
(* Bounds of the model.                                                    *)

MaxSteps == 2       \* the longest configured pipeline list
MaxEntries == 2     \* the longest list a source or a level-2 document holds
MaxInputs == 2      \* the longest `inputs` list of a merge_storehouse step
MaxRetries == 4     \* the largest configured defaults.retries

-----------------------------------------------------------------------------
(* Python values.                                                          *)

None == <<"None">>

Truthy(v) == v # None /\ v # <<>>

\* Python's `a or b` on strings and None.
Or(a, b) == IF Truthy(a) THEN a ELSE b

\* dict.get(key) and dict.get(key, default).
Get(d, k) == IF k \in DOMAIN d THEN d[k] ELSE None

GetOr(d, k, default) == IF k \in DOMAIN d THEN d[k] ELSE default

EmptyDict == [k \in {} |-> None]

\* The result of a call: a value, or an exception with its message.
Ok(v) == [raised |-> FALSE, msg |-> <<>>, value |-> v]

Raise(m) == [raised |-> TRUE, msg |-> m, value |-> EmptyDict]

-----------------------------------------------------------------------------
(* Characters and strings.                                                 *)

UpperSeq == <<"A","B","C","D","E","F","G","H","I","J","K","L","M",
              "N","O","P","Q","R","S","T","U","V","W","X","Y","Z">>

LowerSeq == <<"a","b","c","d","e","f","g","h","i","j","k","l","m",
              "n","o","p","q","r","s","t","u","v","w","x","y","z">>

Digits == {"0","1","2","3","4","5","6","7","8","9"}

Range(s) == {s[i] : i \in DOMAIN s}

AlnumChars == Range(UpperSeq) \cup Range(LowerSeq) \cup Digits

Whitespace == {" "}

\* Two characters outside ASCII: one that NFKD decomposes into an ASCII letter
\* and a combining mark, and one with no ASCII part.
EAcute == "e-acute"

Cjk == "cjk"

LowerChar(c) ==
    IF \E i \in DOMAIN UpperSeq : UpperSeq[i] = c
    THEN LowerSeq[CHOOSE i \in DOMAIN UpperSeq : UpperSeq[i] = c]
    ELSE c

\* str.lower()
Lower(s) == [i \in DOMAIN s |-> LowerChar(s[i])]

RECURSIVE LStrip(_, _)
LStrip(s, chars) ==
    IF s # <<>> /\ Head(s) \in chars THEN LStrip(Tail(s), chars) ELSE s

RECURSIVE RStrip(_, _)
RStrip(s, chars) ==
    IF s # <<>> /\ s[Len(s)] \in chars
    THEN RStrip(SubSeq(s, 1, Len(s) - 1), chars)
    ELSE s

\* str.strip() and str.strip(chars)
Strip(s, chars) == RStrip(LStrip(s, chars), chars)

\* `needle in haystack` on strings
Contains(haystack, needle) ==
    \E i \in 0..(Len(haystack) - Len(needle)) :
        SubSeq(haystack, i + 1, i + Len(needle)) = needle

\* str.endswith
EndsWith(s, suffix) ==
    /\ Len(suffix) <= Len(s)
    /\ SubSeq(s, Len(s) - Len(suffix) + 1, Len(s)) = suffix

\* The position of the first unit of s that is in chars, Len(s) + 1 when none is.
RECURSIVE FirstIn(_, _, _)
FirstIn(s, chars, i) ==
    IF i > Len(s) \/ s[i] \in chars THEN i ELSE FirstIn(s, chars, i + 1)

RECURSIVE Flatten(_)
Flatten(ss) == IF ss = <<>> THEN <<>> ELSE Head(ss) \o Flatten(Tail(ss))

-----------------------------------------------------------------------------
(* _slugify                                                                *)

\* unicodedata.normalize("NFKD", c).encode("ascii", "ignore") of one character
AsciiFold(c) ==
    IF c = EAcute THEN <<"e">>
    ELSE IF c = Cjk THEN <<>>
    ELSE <<c>>

\* re.sub(r"[^a-zA-Z0-9]+", "-", s): inRun says the previous unit was replaced.
RECURSIVE CollapseNonAlnum(_, _)
CollapseNonAlnum(s, inRun) ==
    IF s = <<>> THEN <<>>
    ELSE IF Head(s) \in AlnumChars
         THEN <<Head(s)>> \o CollapseNonAlnum(Tail(s), FALSE)
         ELSE IF inRun THEN CollapseNonAlnum(Tail(s), TRUE)
              ELSE <<"-">> \o CollapseNonAlnum(Tail(s), TRUE)

Slugify(value) ==
    LET ascii_value ==
            Strip(CollapseNonAlnum(
                      Flatten([i \in DOMAIN value |-> AsciiFold(value[i])]), FALSE),
                  {"-"})
    IN  IF Lower(ascii_value) # <<>> THEN Lower(ascii_value) ELSE <<"source">>

-----------------------------------------------------------------------------
(* _is_blocked, _sanitize_storehouse, _sanitize_urls                       *)

SchemeChars == AlnumChars \cup {"+", "-", "."}

Letters == Range(UpperSeq) \cup Range(LowerSeq)

\* urllib.parse.urlparse(url).netloc: the text between the "//" that follows the
\* scheme (when there is one) and the next "/", "?" or "#".
Netloc(url) ==
    LET i == FirstIn(url, {":"}, 1)
        hasScheme == /\ i > 1
                     /\ i <= Len(url)
                     /\ url[1] \in Letters
                     /\ \A k \in 1..(i - 1) : url[k] \in SchemeChars
        rest == IF hasScheme THEN SubSeq(url, i + 1, Len(url)) ELSE url
    IN  IF Len(rest) >= 2 /\ rest[1] = "/" /\ rest[2] = "/"
        THEN SubSeq(rest, 3, FirstIn(rest, {"/", "?", "#"}, 3) - 1)
        ELSE <<>>

\* [str(k).lower() for k in self.filters.get(key, [])]
BlockList(f, key) ==
    LET raw == GetOr(f, key, <<>>) IN [i \in DOMAIN raw |-> Lower(raw[i])]

IsBlocked(name, url, blocked_keywords, blocked_patterns, blocked_domains) ==
    LET lower_name == Lower(name)
        lower_url == Lower(url)
    IN  \/ \E i \in DOMAIN blocked_keywords : Contains(lower_name, blocked_keywords[i])
        \/ \E i \in DOMAIN blocked_patterns : Contains(lower_url, blocked_patterns[i])
        \/ /\ blocked_domains # <<>>
           /\ \E i \in DOMAIN blocked_domains :
                  EndsWith(Lower(Netloc(url)), blocked_domains[i])

\* A JSON value is a dict (a function from its keys), a list l, written
\* [list_value |-> l], or a string s, written [str_value |-> s].
JsonList(l) == [list_value |-> l]

BareString(s) == [str_value |-> s]

IsList(v) == "list_value" \in DOMAIN v

IsDict(v) == "str_value" \notin DOMAIN v /\ "list_value" \notin DOMAIN v

MsgNoAttrGet == <<"AttributeError: 'str' object has no attribute 'get'">>

\* The same without the trimming of the name and of the URL.
SanitizeStorehouseEntryUntrimmed(entry, origin, f) ==
    LET name == Or(Get(entry, "sourceName"), Or(Get(entry, "name"), <<>>))
        url == Or(Get(entry, "sourceUrl"), Or(Get(entry, "url"), <<>>))
        remark == Or(Get(entry, "sourceRemark"), Get(entry, "remark"))
    IN  IF name = <<>> \/ url = <<>> THEN <<>>
        ELSE IF IsBlocked(name, url, BlockList(f, "blocked_keywords"),
                          BlockList(f, "blocked_url_keywords"),
                          BlockList(f, "blocked_domains"))
             THEN <<>>
             ELSE << [sourceName |-> name, sourceUrl |-> url,
                      sourceRemark |-> Or(remark, origin)] >>

\* The entry _sanitize_storehouse appends for one raw entry, <<>> when it drops it.
SanitizeStorehouseEntry(entry, origin, f) ==
    LET name == Strip(Or(Get(entry, "sourceName"), Or(Get(entry, "name"), <<>>)), Whitespace)
        url == Strip(Or(Get(entry, "sourceUrl"), Or(Get(entry, "url"), <<>>)), Whitespace)
        remark == Or(Get(entry, "sourceRemark"), Get(entry, "remark"))
    IN  IF name = <<>> \/ url = <<>> THEN <<>>
        ELSE IF IsBlocked(name, url, BlockList(f, "blocked_keywords"),
                          BlockList(f, "blocked_url_keywords"),
                          BlockList(f, "blocked_domains"))
             THEN <<>>
             ELSE << [sourceName |-> name, sourceUrl |-> url,
                      sourceRemark |-> Or(remark, origin)] >>

\* _sanitize_storehouse: entry.get raises on the first item that is no dict.
SanitizeStorehouse(entries, origin, f) ==
    IF \E i \in DOMAIN entries : ~IsDict(entries[i])
    THEN Raise(MsgNoAttrGet)
    ELSE Ok(Flatten([i \in DOMAIN entries |->
                        SanitizeStorehouseEntry(entries[i], origin, f)]))

SanitizeUrlsEntry(entry, origin, f) ==
    LET name == Strip(Or(Get(entry, "name"), Or(Get(entry, "sourceName"), origin)), Whitespace)
        url == Strip(Or(Get(entry, "url"), Or(Get(entry, "sourceUrl"), <<>>)), Whitespace)
    IN  IF url = <<>> THEN <<>>
        ELSE IF IsBlocked(name, url, BlockList(f, "blocked_keywords"),
                          BlockList(f, "blocked_url_keywords"),
                          BlockList(f, "blocked_domains"))
             THEN <<>>
             ELSE << [name |-> name, url |-> url] >>

SanitizeUrls(entries, origin, f) ==
    IF \E i \in DOMAIN entries : ~IsDict(entries[i])
    THEN Raise(MsgNoAttrGet)
    ELSE Ok(Flatten([i \in DOMAIN entries |-> SanitizeUrlsEntry(entries[i], origin, f)]))

-----------------------------------------------------------------------------
(* _build_public_urls, _write_storehouse_urls, _register_artifact          *)

\* The arguments RouteBuilder is constructed with.
PublicRepo == <<"o", "/", "r">>

PublicBranch == <<"m">>

\* self.domestic.get("templates") (a list the code only tests for truthiness is
\* <<>> when it is absent).
DomesticTemplates == domestic.templates

\* Two mirror templates a configuration may list.
MirrorA == <<"https://a/", "{repo}", "@", "{branch}", "/", "{path}">>

MirrorB == <<"https://b/", "{branch}", "/", "{repo}", "/", "{path}">>

\* The configurations of domestic: no template, or two of them.
DomesticConfigs == {[templates |-> <<>>], [templates |-> <<MirrorA, MirrorB>>]}

DefaultTemplate == <<"https://raw.githubusercontent.com/", "{repo}", "/", "{branch}", "/", "{path}">>

CdnTemplate == <<"https://cdn.jsdelivr.net/gh/", "{repo}", "@", "{branch}", "/", "{path}">>

\* template.format(repo=..., branch=..., path=rel_path)
Format(template, rel_path) ==
    Flatten([i \in DOMAIN template |->
                IF template[i] = "{repo}" THEN PublicRepo
                ELSE IF template[i] = "{branch}" THEN PublicBranch
                ELSE IF template[i] = "{path}" THEN rel_path
                ELSE <<template[i]>>])

BuildPublicUrls(rel_path, templates) ==
    LET tpl == IF templates # <<>> THEN templates
               ELSE IF DomesticTemplates # <<>> THEN DomesticTemplates
               ELSE <<DefaultTemplate>>
    IN  [i \in DOMAIN tpl |-> Format(tpl[i], rel_path)]

DefaultLevel2Dir == <<"dist/routes/storehouses">>

\* The path _write_storehouse_urls writes and returns.
StorehouseUrlsPath(store_slug, expand_cfg) ==
    GetOr(expand_cfg, "level2_output_dir", DefaultLevel2Dir) \o <<"/">> \o store_slug \o <<".json">>

\* The record _register_artifact appends.
Artifact(artifact_id, rel_path, artifact_type, metadata, templates) ==
    [id |-> artifact_id, path |-> rel_path, type |-> artifact_type,
     metadata |-> metadata, templates |-> templates]

-----------------------------------------------------------------------------
(* The configuration: the steps a pipeline list may hold.                  *)

DigitSeq == <<"1", "2", "3", "4", "5", "6", "7", "8", "9">>

\* The id of the i-th declared step; ids are unique within a run.
P(i) == <<"p", DigitSeq[i]>>

KnownKinds == {"remote_storehouse", "local_storehouse", "local_urls_storehouse",
               "merge_storehouse", "copy_route"}

Kinds == KnownKinds \cup {"remote_urls", "unknown_kind"}

\* An `expand` configuration (absent is the empty dict: the code tests truthiness).
ExpandCfg == [level2_field |-> <<"urls">>]

OutputPath(i) == <<"dist/routes/">> \o P(i) \o <<".json">>

\* The ids a step of a list of n steps may reference: the declared ones and one
\* that no step declares.
Refs(n) == {P(i) : i \in 1..(n + 1)}

SeqsUpTo(S, n) == UNION {[1..k -> S] : k \in 0..n}

PipelineSpec(id, kind, expand, output, inputs, input) ==
    [id |-> id, kind |-> kind, expand |-> expand, output |-> output,
     inputs |-> inputs, input |-> input]

\* The `inputs` lists of a merge_storehouse step at position i: the loop over them
\* ends at the first reference that resolves to nothing, so every reference but
\* the last is to an earlier step.
InputLists(i, n) ==
    {ins \in SeqsUpTo(Refs(n), MaxInputs) :
        \A k \in 1..(Len(ins) - 1) : \E j \in 1..(i - 1) : ins[k] = P(j)}

\* The steps that may stand at position i of a list of n steps.
StepSpecs(i, n) ==
    {PipelineSpec(P(i), "remote_storehouse", eo[1], eo[2], <<>>, None) :
        eo \in {<<EmptyDict, None>>, <<EmptyDict, OutputPath(i)>>,
                <<ExpandCfg, OutputPath(i)>>}}
    \cup {PipelineSpec(P(i), "local_storehouse", EmptyDict, OutputPath(i), <<>>, None)}
    \cup {PipelineSpec(P(i), "local_urls_storehouse", e, OutputPath(i), <<>>, None) :
        e \in {EmptyDict, ExpandCfg}}
    \cup {PipelineSpec(P(i), "merge_storehouse", e, OutputPath(i), ins, None) :
        e \in {EmptyDict, ExpandCfg}, ins \in InputLists(i, n)}
    \cup {PipelineSpec(P(i), "copy_route", e, OutputPath(i), <<>>, r) :
        e \in {EmptyDict, ExpandCfg}, r \in Refs(n)}
    \cup {PipelineSpec(P(i), k, EmptyDict, OutputPath(i), <<>>, None) :
        k \in {"remote_urls", "unknown_kind"}}

\* The lists of n steps, from position i on.
RECURSIVE StepLists(_, _)
StepLists(i, n) ==
    IF i > n THEN {<<>>}
    ELSE {<<s>> \o rest : s \in StepSpecs(i, n), rest \in StepLists(i + 1, n)}

\* The pipeline lists of at most max steps.
PipelineLists(max) == UNION {StepLists(1, n) : n \in 0..max}

\* self.filters: one blocked name keyword.
RunFilters == [blocked_keywords |-> << <<"S", "p", "a", "m">> >>]

-----------------------------------------------------------------------------
(* What the network and the local files may hold.                          *)

NameA == <<"A">>

NameB == <<"B", "!">>

Url1 == <<"h", ":", "/", "/", "x", "/", "1">>

Url2 == <<"h", ":", "/", "/", "y", "/", "2">>

\* The raw entries a storehouse list may hold, by name.
RawEntryNames == {"A1", "A2", "B1"}

RawEntry(n) ==
    CASE n = "A1" -> [sourceName |-> NameA, sourceUrl |-> Url1]
      [] n = "A2" -> [name |-> NameA, url |-> Url2, remark |-> <<"r">>]
      [] n = "B1" -> [name |-> NameB, url |-> <<" ">> \o Url1]

RawStoreLists == SeqsUpTo(RawEntryNames, MaxEntries)

RawStoreList(names) == [i \in DOMAIN names |-> RawEntry(names[i])]

MsgHttpError == <<"HTTPError: 500 Server Error">>

MsgFileNotFound == <<"FileNotFoundError: No such file or directory">>

MsgListNoGet == <<"AttributeError: 'list' object has no attribute 'get'">>

MsgNotIterable == <<"TypeError: object is not iterable">>

MsgOriginUndefined == <<"NameError: name 'origin' is not defined">>

-----------------------------------------------------------------------------
(* Objects.  Python shares objects by reference, so the payload dicts and  *)
(* the entry dicts live in two heaps and are named by their addresses: a   *)
(* payload object is a dict whose storeHouse list holds entry addresses.   *)
(* m is the memory a handler works on: both heaps, the files and the       *)
(* artifact registry.                                                      *)

Memory(ph, eh, fs, ws, arts) ==
    [ph |-> ph, eh |-> eh, files |-> fs, writes |-> ws, artifacts |-> arts]

\* What a call hands back: a value or an exception, and the memory it leaves.
Return(v, m) == [raised |-> FALSE, msg |-> <<>>, value |-> v, m |-> m]

Throw(msg, m) == [raised |-> TRUE, msg |-> msg, value |-> 0, m |-> m]

\* A new payload object holding new entry objects.
NewPayload(payload, m) ==
    IF "storeHouse" \in DOMAIN payload
    THEN LET n == Len(payload.storeHouse)
             addrs == [i \in 1..n |-> Len(m.eh) + i]
         IN  [m EXCEPT !.eh = @ \o payload.storeHouse,
                       !.ph = Append(@, [payload EXCEPT !.storeHouse = addrs])]
    ELSE [m EXCEPT !.ph = Append(@, payload)]

\* The payload object at addr, with its entries in place of their addresses.
Resolve(addr, ph, eh) ==
    LET d == ph[addr]
    IN  IF "storeHouse" \in DOMAIN d
        THEN [d EXCEPT !.storeHouse = [i \in DOMAIN d.storeHouse |-> eh[d.storeHouse[i]]]]
        ELSE d

\* _write_json: json.dumps serializes the value the data has at the time.
WriteJson(rel_path, data, m) ==
    [m EXCEPT !.files = (rel_path :> data) @@ @, !.writes = Append(@, rel_path)]

RegisterArtifact(a, m) == [m EXCEPT !.artifacts = Append(@, a)]

\* No copy of a list of entries: the same entry objects.
ShareEntries(addrs, m) == [m |-> m, addrs |-> addrs]

\* No copy of a payload: the same payload object.
SharePayload(addr, m) == [m |-> m, addr |-> addr]

\* copy.deepcopy of a list of entries: new objects with equal contents.
DeepCopyEntries(addrs, m) ==
    [m |-> [m EXCEPT !.eh = @ \o [i \in DOMAIN addrs |-> m.eh[addrs[i]]]],
     addrs |-> [i \in DOMAIN addrs |-> Len(m.eh) + i]]

\* copy.deepcopy of a payload: a new payload object with new entry objects.
DeepCopyPayload(addr, m) ==
    [m |-> NewPayload(Resolve(addr, m.ph, m.eh), m), addr |-> Len(m.ph) + 1]

-----------------------------------------------------------------------------
(* The handlers _dispatch_pipeline routes to.                              *)

\* pipeline.get("origin", pipeline["id"]): no step configures an origin.
Origin(pipeline) == pipeline.id

JsonTruthy(v) ==
    IF IsList(v) THEN v.list_value # <<>>
    ELSE IF "str_value" \in DOMAIN v THEN v.str_value # <<>>
    ELSE DOMAIN v # {}

\* d.get(a) or d.get(b) or [] on a dict of JSON values
GetEither(d, a, b) ==
    IF a \in DOMAIN d /\ JsonTruthy(d[a]) THEN d[a]
    ELSE IF b \in DOMAIN d /\ JsonTruthy(d[b]) THEN d[b]
    ELSE JsonList(<<>>)

\* _sanitize_storehouse on a JSON value that should be a list: iterating a dict
\* yields its keys, strings, and a string yields its characters.
SanitizeStorehouseJson(entries, origin, f) ==
    IF IsList(entries) THEN SanitizeStorehouse(entries.list_value, origin, f)
    ELSE IF JsonTruthy(entries) THEN Raise(MsgNoAttrGet)
    ELSE Ok(<<>>)

SanitizeUrlsJson(entries, origin, f) ==
    IF IsList(entries) THEN SanitizeUrls(entries.list_value, origin, f)
    ELSE IF JsonTruthy(entries) THEN Raise(MsgNoAttrGet)
    ELSE Ok(<<>>)

\* The return of _run_remote_storehouse and _run_local_storehouse, given what
\* _sanitize_storehouse gave.
StorehouseReturn(clean, m) ==
    IF clean.raised THEN Throw(clean.msg, m)
    ELSE Return(Len(m.ph) + 1, NewPayload([storeHouse |-> clean.value], m))

\* resp is what _fetch_json gives for source.url.
RunRemoteStorehouse(pipeline, resp, f, m) ==
    IF resp.raised THEN Throw(resp.msg, m)
    ELSE IF ~IsDict(resp.value) THEN Throw(MsgListNoGet, m)
    ELSE StorehouseReturn(
             SanitizeStorehouseJson(GetOr(resp.value, "storeHouse", JsonList(<<>>)),
                                    Origin(pipeline), f), m)

\* entries = payload.get(field, payload), and the dict case that follows it.
LocalEntries(payload, field) ==
    IF IsDict(GetOr(payload, field, payload))
    THEN GetEither(GetOr(payload, field, payload), "storeHouse", field)
    ELSE GetOr(payload, field, payload)

\* The wrapping of bare URL strings reads `origin`, a name the function never
\* binds: NameError.
LocalSanitized(pipeline, entries, f, m) ==
    IF /\ IsList(entries)
       /\ entries.list_value # <<>>
       /\ "str_value" \in DOMAIN entries.list_value[1]
    THEN Throw(MsgOriginUndefined, m)
    ELSE StorehouseReturn(SanitizeStorehouseJson(entries, Origin(pipeline), f), m)

\* file is what opening and json.load-ing source.path gives; source.field is
\* not configured, so field is "storeHouse".
RunLocalStorehouse(pipeline, file, f, m) ==
    IF file.raised THEN Throw(file.msg, m)
    ELSE IF ~IsDict(file.value) THEN Throw(MsgListNoGet, m)
    ELSE LocalSanitized(pipeline, LocalEntries(file.value, "storeHouse"), f, m)

MsgNeedsExpand == <<"ValueError: local_urls_storehouse needs an expand configuration">>

\* store.get("name", "本地多仓"): no step configures a store; the default name
\* is four characters that have no ASCII part.
DefaultStoreName == <<Cjk, Cjk, Cjk, Cjk>>

\* The write, the entry and the registration of _run_local_urls_storehouse.
LocalUrlsWritten(pipeline, urls, store_name, rel_path, templates, m) ==
    Return(Len(m.ph) + 1,
           NewPayload(
               [storeHouse |-> << [sourceName |-> store_name,
                                   sourceUrl |-> BuildPublicUrls(rel_path, templates)[1],
                                   sourceRemark |-> Origin(pipeline)] >>],
               RegisterArtifact(
                   Artifact(pipeline.id \o <<"::">> \o Slugify(store_name), rel_path,
                            "storehouse", [origin |-> None, store |-> store_name],
                            templates),
                   WriteJson(rel_path, [urls |-> urls], m))))

LocalUrlsSanitized(pipeline, clean_urls, m) ==
    IF clean_urls.raised THEN Throw(clean_urls.msg, m)
    ELSE IF DOMAIN pipeline.expand = {} THEN Throw(MsgNeedsExpand, m)
    ELSE LocalUrlsWritten(pipeline, clean_urls.value, DefaultStoreName,
                          StorehouseUrlsPath(Slugify(DefaultStoreName), pipeline.expand),
                          GetOr(pipeline.expand, "level2_public_templates", <<>>), m)

\* file is what opening and json.load-ing source.path gives; source.field is not
\* configured, so field is "urls".
RunLocalUrlsStorehouse(pipeline, file, f, m) ==
    IF file.raised THEN Throw(file.msg, m)
    ELSE IF ~IsDict(file.value) THEN Throw(MsgListNoGet, m)
    ELSE LocalUrlsSanitized(
             pipeline,
             SanitizeUrlsJson(GetOr(file.value, "urls", file.value), pipeline.id, f), m)

MsgNoData(ref) == <<"ValueError: dependency produced no data: ">> \o ref

\* The loop over pipeline.get("inputs", []): the addresses merged so far.
RECURSIVE MergeInputs(_, _, _, _)
MergeInputs(inputs, ctx, merged, m) ==
    IF inputs = <<>> THEN [raised |-> FALSE, msg |-> <<>>, merged |-> merged, m |-> m]
    ELSE LET ref == Head(inputs)
         IN  IF ref \notin DOMAIN ctx \/ DOMAIN m.ph[ctx[ref]] = {}
             THEN [raised |-> TRUE, msg |-> MsgNoData(ref), merged |-> merged, m |-> m]
             ELSE LET copy == DeepCopyEntries(GetOr(m.ph[ctx[ref]], "storeHouse", <<>>), m)
                  IN  MergeInputs(Tail(inputs), ctx, merged \o copy.addrs, copy.m)

\* The dedup loop keeping the last entry of each sourceUrl instead of the first.
RECURSIVE DedupKeepLast(_, _, _)
DedupKeepLast(merged, seen, eh) ==
    IF merged = <<>> THEN <<>>
    ELSE LET url == Get(eh[Head(merged)], "sourceUrl")
         IN  IF ~Truthy(url) \/ \E k \in DOMAIN Tail(merged) :
                                  Get(eh[Tail(merged)[k]], "sourceUrl") = url
             THEN DedupKeepLast(Tail(merged), seen, eh)
             ELSE <<Head(merged)>> \o DedupKeepLast(Tail(merged), seen, eh)

\* The dedup loop: seen is the set of sourceUrls kept so far.
RECURSIVE DedupBySourceUrl(_, _, _)
DedupBySourceUrl(merged, seen, eh) ==
    IF merged = <<>> THEN <<>>
    ELSE LET url == Get(eh[Head(merged)], "sourceUrl")
         IN  IF ~Truthy(url) \/ url \in seen
             THEN DedupBySourceUrl(Tail(merged), seen, eh)
             ELSE <<Head(merged)>> \o DedupBySourceUrl(Tail(merged), seen \cup {url}, eh)

\* The return of _run_merge_storehouse, given what the loop over the inputs gave.
MergeReturn(r) ==
    IF r.raised THEN Throw(r.msg, r.m)
    ELSE Return(Len(r.m.ph) + 1,
                [r.m EXCEPT !.ph = Append(@,
                    [storeHouse |-> DedupBySourceUrl(r.merged, {}, r.m.eh)])])

RunMergeStorehouse(pipeline, ctx, m) ==
    MergeReturn(MergeInputs(pipeline.inputs, ctx, <<>>, m))

MsgNoInput(ref) == <<"ValueError: copy_route cannot find input: ">> \o ref

\* _run_copy_route answering a reference it cannot resolve with an empty payload.
RunCopyRouteLenient(pipeline, ctx, m) ==
    LET ref == pipeline.input
    IN  IF ref \notin DOMAIN ctx
        THEN Return(Len(m.ph) + 1, NewPayload([storeHouse |-> <<>>], m))
        ELSE LET copy == DeepCopyPayload(ctx[ref], m) IN Return(copy.addr, copy.m)

RunCopyRoute(pipeline, ctx, m) ==
    LET ref == pipeline.input
    IN  IF ref \notin DOMAIN ctx THEN Throw(MsgNoInput(ref), m)
        ELSE LET copy == DeepCopyPayload(ctx[ref], m) IN Return(copy.addr, copy.m)

MsgUnknownKind(kind) == <<"ValueError: pipeline kind not implemented: ", kind>>

\* _default_payload_for_kind with the empty dict for every kind.
DefaultPayloadAlwaysEmpty(kind) == EmptyDict

\* _default_payload_for_kind
DefaultPayloadForKind(kind) ==
    IF kind \in {"remote_storehouse", "local_storehouse", "local_urls_storehouse",
                 "merge_storehouse", "copy_route"}
    THEN [storeHouse |-> <<>>]
    ELSE IF kind = "remote_urls" THEN [urls |-> <<>>]
    ELSE EmptyDict

-----------------------------------------------------------------------------
(* The expansion engine.                                                   *)

Level2Kinds == {"error", "object", "no_list", "bare_strings"}

\* What requests.get(url) and response.json() give for a level-1 URL.
Level2Response(kind, url) ==
    CASE kind = "error" -> Raise(MsgHttpError)
      [] kind = "object" ->
            Ok([urls |-> JsonList(<< [name |-> <<"n">>, url |-> url \o <<"?", "a">>],
                                     [name |-> <<"S", "p", "a", "m">>, url |-> url] >>)])
      [] kind = "no_list" -> Ok([urls |-> BareString(url)])
      [] kind = "bare_strings" -> Ok([urls |-> JsonList(<<BareString(url)>>)])

MsgNotArray == <<"ValueError: level2 response is not an array">>

\* _fetch_level2_urls; field is one unit, the key it names.
FetchLevel2Urls(resp, field) ==
    IF resp.raised THEN resp
    ELSE IF ~IsDict(resp.value) THEN Raise(MsgListNoGet)
    ELSE LET entries == GetOr(resp.value, field[1], resp.value)
         IN  IF ~IsList(entries) THEN Raise(MsgNotArray)
             ELSE Ok(entries.list_value)

\* entry["sourceUrl"] = public_url; entry.setdefault("sourceRemark", origin)
\* The rewriting with the remark assigned instead of defaulted.
RewrittenRemarkAssigned(entry, public_url, origin) ==
    [k \in DOMAIN entry \cup {"sourceRemark"} |->
        IF k = "sourceUrl" THEN public_url
        ELSE IF k = "sourceRemark" THEN origin
        ELSE entry[k]]

Rewritten(entry, public_url, origin) ==
    [k \in DOMAIN entry \cup {"sourceRemark"} |->
        IF k = "sourceUrl" THEN public_url
        ELSE IF k \in DOMAIN entry THEN entry[k]
        ELSE origin]

\* The body of the loop once the level-2 list is sanitized: it is not, when
\* _sanitize_urls raised, and the exception leaves the loop (it is raised outside
\* the try).  Else the nested file is written, the entry rewritten in place and the
\* artifact registered.
ExpandSanitized(addr, clean_urls, store_name, rel_path, templates, pipeline_id, origin, m) ==
    IF clean_urls.raised THEN [error |-> clean_urls.msg, m |-> m]
    ELSE [error |-> None,
          m |-> RegisterArtifact(
                    Artifact(pipeline_id \o <<"::">> \o Slugify(store_name), rel_path,
                             "storehouse",
                             [original_level2 |-> Get(m.eh[addr], "sourceUrl"),
                              store |-> store_name],
                             templates),
                    [WriteJson(rel_path, [urls |-> clean_urls.value], m)
                        EXCEPT !.eh[addr] =
                            Rewritten(@, BuildPublicUrls(rel_path, templates)[1], origin)])]

\* The body of the loop once _fetch_level2_urls is back: an exception of it is
\* caught and the entry left as it is.
ExpandFetched(addr, raw_urls, store_name, expand_cfg, pipeline_id, origin, f, m) ==
    IF raw_urls.raised THEN [error |-> None, m |-> m]
    ELSE ExpandSanitized(addr, SanitizeUrls(raw_urls.value, store_name, f), store_name,
                         StorehouseUrlsPath(Slugify(store_name), expand_cfg),
                         GetOr(expand_cfg, "level2_public_templates", <<>>),
                         pipeline_id, origin, m)

\* The body of the loop of _expand_storehouse_routes for the entry at addr, given
\* the level-2 response for its URL: the memory it leaves, and the exception that
\* leaves the loop (None when there is none).
ExpandEntry(addr, resp, expand_cfg, pipeline_id, origin, f, m) ==
    IF ~Truthy(Get(m.eh[addr], "sourceUrl")) THEN [error |-> None, m |-> m]
    ELSE ExpandFetched(addr,
                       FetchLevel2Urls(resp, GetOr(expand_cfg, "level2_field", <<"urls">>)),
                       Or(Get(m.eh[addr], "sourceName"), origin),
                       expand_cfg, pipeline_id, origin, f, m)

\* _expand_storehouse_routes over the entries from position i on; kinds[i] says
\* what the level-2 fetch for the i-th entry gives.
RECURSIVE ExpandStorehouseRoutes(_, _, _, _, _, _, _, _)

\* The loop goes on after the entry at i unless an exception left its body.
ExpandNext(x, entries, i, kinds, expand_cfg, pipeline_id, origin, f) ==
    IF x.error # None THEN x
    ELSE ExpandStorehouseRoutes(entries, i + 1, kinds, expand_cfg, pipeline_id,
                                origin, f, x.m)

ExpandStorehouseRoutes(entries, i, kinds, expand_cfg, pipeline_id, origin, f, m) ==
    IF i > Len(entries) THEN [error |-> None, m |-> m]
    ELSE ExpandNext(ExpandEntry(entries[i],
                                Level2Response(kinds[i], Get(m.eh[entries[i]], "sourceUrl")),
                                expand_cfg, pipeline_id, origin, f, m),
                    entries, i, kinds, expand_cfg, pipeline_id, origin, f)

-----------------------------------------------------------------------------
(* One iteration of the loop of run().                                     *)

\* entries.insert(0, entries.pop())
LastToFront(entries) ==
    <<entries[Len(entries)]>> \o SubSeq(entries, 1, Len(entries) - 1)

\* The record run() appends for a step; error_message is str(exc), None when the
\* dispatch raised nothing.  duration_ms and source are left out.
PipelineRecord(pipeline, error_message) ==
    LET record == [id |-> pipeline.id, kind |-> pipeline.kind,
                   output |-> pipeline.output, inputs |-> pipeline.inputs]
    IN  IF Truthy(error_message)
        THEN [k \in DOMAIN record \cup {"error"} |->
                 IF k = "error" THEN error_message ELSE record[k]]
        ELSE record

\* The payload run() goes on with after the try: d is what the dispatch handed back.
AfterDispatch(pipeline, d) ==
    IF d.raised
    THEN [data |-> Len(d.m.ph) + 1,
          m |-> NewPayload(DefaultPayloadForKind(pipeline.kind), d.m)]
    ELSE [data |-> d.value, m |-> d.m]

\* Line 61 without the test of the kind.
DoesExpandAnyKind(pipeline) == DOMAIN pipeline.expand # {}

DoesExpand(pipeline) ==
    DOMAIN pipeline.expand # {} /\ pipeline.kind # "local_urls_storehouse"

\* Lines 61 to 68: the expansion of the entries of the payload at a.data.
Expand(pipeline, a, kinds, f) ==
    IF DoesExpand(pipeline)
    THEN ExpandStorehouseRoutes(GetOr(a.m.ph[a.data], "storeHouse", <<>>), 1, kinds,
                                pipeline.expand, pipeline.id, Origin(pipeline), f, a.m)
    ELSE [error |-> None, m |-> a.m]

\* Lines 69 to 71, inside the branch of the expansion.
Prioritize(pipeline, data, priority, m) ==
    IF /\ DoesExpand(pipeline)
       /\ priority = pipeline.id
       /\ GetOr(m.ph[data], "storeHouse", <<>>) # <<>>
    THEN [m EXCEPT !.ph[data].storeHouse = LastToFront(@)]
    ELSE m

\* Lines 73 to 80.
WriteOutput(pipeline, data, m) ==
    IF Truthy(pipeline.output)
    THEN RegisterArtifact(
             Artifact(pipeline.id, pipeline.output, "pipeline", EmptyDict, <<>>),
             WriteJson(pipeline.output, Resolve(data, m.ph, m.eh), m))
    ELSE m

\* StepExpanded with the exception of the dispatch raised again once the default
\* payload is stored.
StepExpandedReraise(pipeline, d, data, x, priority) ==
    IF x.error # None \/ d.raised
    THEN [error |-> IF x.error # None THEN x.error ELSE d.msg,
          data |-> data, m |-> x.m, record |-> <<>>]
    ELSE [error |-> None, data |-> data,
          m |-> WriteOutput(pipeline, data, Prioritize(pipeline, data, priority, x.m)),
          record |-> <<PipelineRecord(pipeline, None)>>]

\* StepExpanded with the record appended only when the dispatch raised nothing.
StepExpandedNoRecordOnFailure(pipeline, d, data, x, priority) ==
    IF x.error # None
    THEN [error |-> x.error, data |-> data, m |-> x.m, record |-> <<>>]
    ELSE [error |-> None, data |-> data,
          m |-> WriteOutput(pipeline, data, Prioritize(pipeline, data, priority, x.m)),
          record |-> IF d.raised THEN <<>> ELSE <<PipelineRecord(pipeline, None)>>]

\* StepExpanded with the output written before the priority reordering.
StepExpandedWriteBeforePriority(pipeline, d, data, x, priority) ==
    IF x.error # None
    THEN [error |-> x.error, data |-> data, m |-> x.m, record |-> <<>>]
    ELSE [error |-> None, data |-> data,
          m |-> Prioritize(pipeline, data, priority, WriteOutput(pipeline, data, x.m)),
          record |-> <<PipelineRecord(pipeline, IF d.raised THEN d.msg ELSE None)>>]

\* The step once the expansion is over: x.error is the exception that left it.
StepExpanded(pipeline, d, data, x, priority) ==
    IF x.error # None
    THEN [error |-> x.error, data |-> data, m |-> x.m, record |-> <<>>]
    ELSE [error |-> None, data |-> data,
          m |-> WriteOutput(pipeline, data, Prioritize(pipeline, data, priority, x.m)),
          record |-> <<PipelineRecord(pipeline, IF d.raised THEN d.msg ELSE None)>>]

\* What run() does with a step after the try, lines 59 to 92: a is the payload it
\* goes on with, kinds are the level-2 responses of the entries.  error is the
\* exception that leaves run(), None when the iteration ends.
StepOutcome(pipeline, d, a, kinds, priority, f) ==
    StepExpanded(pipeline, d, a.data, Expand(pipeline, a, kinds, f), priority)

-----------------------------------------------------------------------------
(* run()                                                                   *)

MsgNoPipelines == <<"ValueError: config/routes.yaml configures no pipelines">>

SummaryPath == <<"dist/meta/routes_summary.json">>

DomesticLinksPath == <<"dist/meta/domestic_links.json">>

\* The document _write_summary writes (generated_at, a clock reading, is left out).
Summary(records) ==
    [pipelines |-> records,
     cdn_index |-> BuildPublicUrls(<<"dist/routes/multi/index.json">>, <<CdnTemplate>>)[1]]

\* The same with the first template only.
DomesticLinksFirstMirrorOnly(arts) ==
    LET templates == IF DomesticTemplates # <<>> THEN DomesticTemplates
                     ELSE <<DefaultTemplate>>
    IN  [i \in DOMAIN arts |->
            [id |-> arts[i].id, type |-> arts[i].type, path |-> arts[i].path,
             mirrors |-> <<Format(templates[1], arts[i].path)>>,
             metadata |-> arts[i].metadata]]

\* The document _write_domestic_links writes.
DomesticLinks(arts) ==
    LET templates == IF DomesticTemplates # <<>> THEN DomesticTemplates
                     ELSE <<DefaultTemplate>>
    IN  [i \in DOMAIN arts |->
            [id |-> arts[i].id, type |-> arts[i].type, path |-> arts[i].path,
             mirrors |-> [t \in DOMAIN templates |-> Format(templates[t], arts[i].path)],
             metadata |-> arts[i].metadata]]

\* The memory the handlers of the step at hand start from.
M0 == Memory(payload_heap, entry_heap, files, writes, artifacts)

AtStep(kinds) ==
    /\ pc = "loop"
    /\ idx <= Len(pipelines)
    /\ pipelines[idx].kind \in kinds

\* The rest of the iteration once the dispatch has handed back d.
Step(pipeline, d, source) ==
    \E a \in {AfterDispatch(pipeline, d)} :
    \E kinds \in [1..(IF DoesExpand(pipeline)
                      THEN Len(GetOr(a.m.ph[a.data], "storeHouse", <<>>))
                      ELSE 0) -> Level2Kinds] :
    \E o \in {StepOutcome(pipeline, d, a, kinds, warehouse_priority, filters)} :
        /\ context' = (pipeline.id :> o.data) @@ context
        /\ payload_heap' = o.m.ph
        /\ entry_heap' = o.m.eh
        /\ files' = o.m.files
        /\ writes' = o.m.writes
        /\ artifacts' = o.m.artifacts
        /\ pipeline_records' = pipeline_records \o o.record
        /\ raised' = Append(raised, [raised |-> d.raised, msg |-> d.msg])
        /\ returned' = Append(returned,
                              IF d.raised THEN EmptyDict
                              ELSE Resolve(d.value, d.m.ph, d.m.eh))
        /\ committed' = IF o.error # None THEN committed
                         ELSE Append(committed, Resolve(o.data, o.m.ph, o.m.eh))
        /\ run_error' = o.error
        /\ read' = Append(read, [kind |-> source[1], names |-> source[2], level2 |-> kinds])
        /\ pc' = IF o.error # None THEN "raised" ELSE pc
        /\ idx' = IF o.error # None THEN idx ELSE idx + 1
        /\ UNCHANGED <<pipelines, warehouse_priority, filters, domestic, fetch, call>>

\* run() without the check for a configured pipeline list.
StartRunUnchecked ==
    /\ pc = "init"
    /\ pc' = "loop"
    /\ UNCHANGED <<pipelines, warehouse_priority, filters, domestic, idx, context, payload_heap,
                   entry_heap, pipeline_records, artifacts, files, writes, raised,
                   returned, committed, run_error, read, fetch, call>>

\* run() is called: the check for a configured pipeline list.
StartRun ==
    /\ pc = "init"
    /\ IF pipelines = <<>>
       THEN pc' = "raised" /\ run_error' = MsgNoPipelines
       ELSE pc' = "loop" /\ run_error' = run_error
    /\ UNCHANGED <<pipelines, warehouse_priority, filters, domestic, idx, context, payload_heap,
                   entry_heap, pipeline_records, artifacts, files, writes, raised,
                   returned, committed, read, fetch, call>>

\* What _fetch_json gives for the source URL of a remote_storehouse step.
RemoteKinds == {"error", "error_no_message", "object", "array"}

RemoteResponse(kind, names) ==
    CASE kind = "error" -> Raise(MsgHttpError)
      [] kind = "error_no_message" -> Raise(<<>>)
      [] kind = "object" -> Ok([storeHouse |-> JsonList(RawStoreList(names))])
      [] kind = "array" -> Ok(JsonList(RawStoreList(names)))

StepRemoteStorehouse ==
    /\ AtStep({"remote_storehouse"})
    /\ \E kind \in RemoteKinds :
         \E names \in (IF kind = "object" THEN RawStoreLists ELSE {<<>>}) :
         \E d \in {RunRemoteStorehouse(pipelines[idx], RemoteResponse(kind, names),
                                        filters, M0)} :
            Step(pipelines[idx], d, <<kind, names>>)

\* What a local file of a local_storehouse step may hold.
LocalFileKinds == {"error", "object", "nested", "array", "bare_strings"}

LocalFile(kind, names) ==
    CASE kind = "error" -> Raise(MsgFileNotFound)
      [] kind = "object" -> Ok([storeHouse |-> JsonList(RawStoreList(names))])
      [] kind = "nested" -> Ok([data |-> [storeHouse |-> JsonList(RawStoreList(names))]])
      [] kind = "array" -> Ok(JsonList(RawStoreList(names)))
      [] kind = "bare_strings" -> Ok([storeHouse |-> JsonList(<<BareString(Url1)>>)])

StepLocalStorehouse ==
    /\ AtStep({"local_storehouse"})
    /\ \E kind \in LocalFileKinds :
         \E names \in (IF kind = "object" THEN RawStoreLists ELSE {<<"A1">>}) :
         \E d \in {RunLocalStorehouse(pipelines[idx], LocalFile(kind, names),
                                       filters, M0)} :
            Step(pipelines[idx], d, <<kind, names>>)

\* What a local file of a local_urls_storehouse step may hold.
UrlEntryNames == {"U1", "Spam"}

UrlEntry(n) ==
    CASE n = "U1" -> [sourceUrl |-> Url1]
      [] n = "Spam" -> [name |-> <<"s", "p", "a", "m">>, url |-> Url2]

LocalUrlsFileKinds == {"error", "object", "array"}

LocalUrlsFile(kind, names) ==
    CASE kind = "error" -> Raise(MsgFileNotFound)
      [] kind = "object" -> Ok([urls |-> JsonList([i \in DOMAIN names |-> UrlEntry(names[i])])])
      [] kind = "array" -> Ok(JsonList([i \in DOMAIN names |-> UrlEntry(names[i])]))

StepLocalUrlsStorehouse ==
    /\ AtStep({"local_urls_storehouse"})
    /\ \E kind \in LocalUrlsFileKinds :
         \E names \in (IF kind = "object" THEN SeqsUpTo(UrlEntryNames, MaxEntries)
                       ELSE {<<"U1">>}) :
         \E d \in {RunLocalUrlsStorehouse(pipelines[idx], LocalUrlsFile(kind, names),
                                           filters, M0)} :
            Step(pipelines[idx], d, <<kind, names>>)

StepMergeStorehouse ==
    /\ AtStep({"merge_storehouse"})
    /\ \E d \in {RunMergeStorehouse(pipelines[idx], context, M0)} :
         Step(pipelines[idx], d, <<"none", <<>>>>)

StepCopyRoute ==
    /\ AtStep({"copy_route"})
    /\ \E d \in {RunCopyRoute(pipelines[idx], context, M0)} :
         Step(pipelines[idx], d, <<"none", <<>>>>)

\* A kind _dispatch_pipeline has no handler for.
StepUnknownKind ==
    /\ AtStep(Kinds \ KnownKinds)
    /\ \E d \in {Throw(MsgUnknownKind(pipelines[idx].kind), M0)} :
         Step(pipelines[idx], d, <<"none", <<>>>>)

\* After the loop: _write_summary and _write_domestic_links.
Finish ==
    /\ pc = "loop"
    /\ idx > Len(pipelines)
    /\ LET m1 == WriteJson(SummaryPath, Summary(pipeline_records), M0)
           m2 == WriteJson(DomesticLinksPath, DomesticLinks(artifacts), m1)
       IN  files' = m2.files /\ writes' = m2.writes
    /\ pc' = "done"
    /\ UNCHANGED <<pipelines, warehouse_priority, filters, domestic, idx, context, payload_heap,
                   entry_heap, pipeline_records, artifacts, raised, returned, committed,
                   run_error, read, fetch, call>>

-----------------------------------------------------------------------------
(* _fetch_json: one call, under a configured defaults.retries.             *)

FetchErrors == {"E1", "E2"}

FetchValues == {"V1", "V2"}

\* 2 ** n
RECURSIVE Pow2(_)
Pow2(n) == IF n = 0 THEN 1 ELSE 2 * Pow2(n - 1)

Min(a, b) == IF a < b THEN a ELSE b

\* 2 ** attempt, without the cap
BackoffUncapped(attempt) == Pow2(attempt)

\* min(2 ** attempt, 5)
Backoff(attempt) == Min(Pow2(attempt), 5)

\* No call is under way.
FetchIdle ==
    [phase |-> "idle", attempts |-> 0, attempt |-> 0, outcomes |-> <<>>,
     sleeps |-> <<>>, result |-> "none"]

\* The call starts: range(1, attempts + 1) is empty when attempts is below 1, and
\* the function then falls off its end and returns None.
FetchCall ==
    /\ fetch.phase = "idle"
    /\ fetch' = IF fetch.attempts >= 1
                THEN [fetch EXCEPT !.phase = "request", !.attempt = 1]
                ELSE [fetch EXCEPT !.phase = "returned", !.result = "None"]
    /\ UNCHANGED <<runVars, call>>

\* requests.get, raise_for_status and response.json succeed: return.
FetchAttemptSucceeds ==
    /\ fetch.phase = "request"
    /\ \E v \in FetchValues :
         fetch' = [fetch EXCEPT !.phase = "returned", !.result = v,
                                !.outcomes = Append(@, v)]
    /\ UNCHANGED <<runVars, call>>

\* The same with the last attempt taken for one more to sleep after.
FetchAttemptFailsOneMore ==
    /\ fetch.phase = "request"
    /\ \E exc \in FetchErrors :
         fetch' = IF fetch.attempt <= fetch.attempts
                  THEN [fetch EXCEPT !.outcomes = Append(@, exc),
                                     !.sleeps = Append(@, Backoff(fetch.attempt)),
                                     !.attempt = @ + 1]
                  ELSE [fetch EXCEPT !.outcomes = Append(@, exc),
                                     !.phase = "raised", !.result = exc]
    /\ UNCHANGED <<runVars, call>>

\* One of them raises exc: sleep and go round again, or re-raise on the last attempt.
FetchAttemptFails ==
    /\ fetch.phase = "request"
    /\ \E exc \in FetchErrors :
         fetch' = IF fetch.attempt < fetch.attempts
                  THEN [fetch EXCEPT !.outcomes = Append(@, exc),
                                     !.sleeps = Append(@, Backoff(fetch.attempt)),
                                     !.attempt = @ + 1]
                  ELSE [fetch EXCEPT !.outcomes = Append(@, exc),
                                     !.phase = "raised", !.result = exc]
    /\ UNCHANGED <<runVars, call>>

-----------------------------------------------------------------------------
(* The specifications.                                                     *)

\* No sanitizer is called.
CallIdle == [phase |-> "idle"]

\* The blocklists a run may be configured with.
FilterConfigs ==
    {[blocked_keywords |-> k, blocked_url_keywords |-> u, blocked_domains |-> d] :
        k \in {<<>>, << <<"a", "B">> >>},
        u \in {<<>>, << <<"Y", "/">> >>},
        d \in {<<>>, << <<"X", ".", "c", "n">> >>}}

SanitizeOrigins == {<<"o">>, <<"A", "b">>}

\* The raw entries a sanitizer may be handed.
SanitizeEntryNames == {"plain", "keyword", "domain", "port", "blank", "same_url"}

SanitizeEntry(n) ==
    CASE n = "plain" ->
            [sourceName |-> <<"c">>, sourceUrl |-> <<"h", ":", "/", "/", "y", "/", "2">>,
             sourceRemark |-> <<"r">>]
      [] n = "keyword" ->
            [name |-> <<" ", "A", "b", " ">>, url |-> <<"h", ":", "/", "/", "z", "/", "3">>,
             remark |-> <<"k">>]
      [] n = "domain" ->
            [name |-> <<"d">>, url |-> <<"h", ":", "/", "/", "w", ".", "X", ".", "c", "n", "/", "1">>]
      [] n = "port" ->
            [name |-> <<"d">>,
             url |-> <<"h", ":", "/", "/", "x", ".", "c", "n", ":", "8", "/", "1">>]
      [] n = "blank" ->
            [sourceName |-> <<" ">>, name |-> <<"e">>, url |-> <<"h", ":", "/", "/", "z", "/", "3">>]
      [] n = "same_url" ->
            [name |-> <<"e">>, url |-> <<" ", "h", ":", "/", "/", "y", "/", "2", " ">>]

SanitizeEntries(names) == [i \in DOMAIN names |-> SanitizeEntry(names[i])]

\* _sanitize_storehouse(entries, origin) is called and returns.
CallSanitizeStorehouse ==
    /\ call.phase = "called"
    /\ call.fn = "_sanitize_storehouse"
    /\ call' = [phase |-> "returned", fn |-> call.fn, names |-> call.names,
                origin |-> call.origin,
                result |-> SanitizeStorehouse(SanitizeEntries(call.names), call.origin,
                                              filters)]
    /\ UNCHANGED <<runVars, fetch>>

\* _sanitize_urls(entries, origin) is called and returns.
CallSanitizeUrls ==
    /\ call.phase = "called"
    /\ call.fn = "_sanitize_urls"
    /\ call' = [phase |-> "returned", fn |-> call.fn, names |-> call.names,
                origin |-> call.origin,
                result |-> SanitizeUrls(SanitizeEntries(call.names), call.origin, filters)]
    /\ UNCHANGED <<runVars, fetch>>

\* _sanitize_storehouse is called on the list it returned, with the same origin.
CallSanitizeStorehouseAgain ==
    /\ call.phase = "returned"
    /\ call.fn = "_sanitize_storehouse"
    /\ ~call.result.raised
    /\ call' = [phase |-> "again", fn |-> call.fn, names |-> call.names,
                origin |-> call.origin, result |-> call.result,
                again |-> SanitizeStorehouse(call.result.value, call.origin, filters)]
    /\ UNCHANGED <<runVars, fetch>>

PriorityChoices(ps) == {None} \cup {ps[i].id : i \in {Len(ps)} \cap DOMAIN ps}

Init ==
    /\ pipelines \in PipelineLists(MaxSteps)
    /\ warehouse_priority \in PriorityChoices(pipelines)
    /\ filters = RunFilters
    /\ domestic \in DomesticConfigs
    /\ pc = "init"
    /\ idx = 1
    /\ context = EmptyDict
    /\ payload_heap = <<>>
    /\ entry_heap = <<>>
    /\ pipeline_records = <<>>
    /\ artifacts = <<>>
    /\ files = EmptyDict
    /\ writes = <<>>
    /\ raised = <<>>
    /\ returned = <<>>
    /\ committed = <<>>
    /\ run_error = None
    /\ read = <<>>
    /\ fetch = FetchIdle
    /\ call = CallIdle

Next ==
    \/ StartRun
    \/ StepRemoteStorehouse
    \/ StepLocalStorehouse
    \/ StepLocalUrlsStorehouse
    \/ StepMergeStorehouse
    \/ StepCopyRoute
    \/ StepUnknownKind
    \/ Finish

Spec == Init /\ [][Next]_vars

\* One call of _fetch_json on a builder that is not running.
InitFetch ==
    /\ pipelines = <<>>
    /\ warehouse_priority = None
    /\ filters = RunFilters
    /\ domestic = [templates |-> <<>>]
    /\ pc = "init"
    /\ idx = 1
    /\ context = EmptyDict
    /\ payload_heap = <<>>
    /\ entry_heap = <<>>
    /\ pipeline_records = <<>>
    /\ artifacts = <<>>
    /\ files = EmptyDict
    /\ writes = <<>>
    /\ raised = <<>>
    /\ returned = <<>>
    /\ committed = <<>>
    /\ run_error = None
    /\ read = <<>>
    /\ call = CallIdle
    /\ \E n \in 0..MaxRetries : fetch = [FetchIdle EXCEPT !.attempts = n]

InitSanitize ==
    /\ pipelines = <<>>
    /\ warehouse_priority = None
    /\ filters \in FilterConfigs
    /\ domestic = [templates |-> <<>>]
    /\ pc = "init"
    /\ idx = 1
    /\ context = EmptyDict
    /\ payload_heap = <<>>
    /\ entry_heap = <<>>
    /\ pipeline_records = <<>>
    /\ artifacts = <<>>
    /\ files = EmptyDict
    /\ writes = <<>>
    /\ raised = <<>>
    /\ returned = <<>>
    /\ committed = <<>>
    /\ run_error = None
    /\ read = <<>>
    /\ fetch = FetchIdle
    /\ \E fn \in {"_sanitize_storehouse", "_sanitize_urls"} :
       \E names \in SeqsUpTo(SanitizeEntryNames, MaxEntries) :
       \E origin \in SanitizeOrigins :
          call = [phase |-> "called", fn |-> fn, names |-> names, origin |-> origin]

NextSanitize == CallSanitizeStorehouse \/ CallSanitizeUrls \/ CallSanitizeStorehouseAgain

SpecSanitize == InitSanitize /\ [][NextSanitize]_vars

NextFetch == FetchCall \/ FetchAttemptSucceeds \/ FetchAttemptFails

SpecFetch == InitFetch /\ [][NextFetch]_vars

-----------------------------------------------------------------------------
(* The properties.                                                         *)

\* The payload the context holds under id, by value.
Payload(id) == Resolve(context[id], payload_heap, entry_heap)

\* The steps whose dispatch is over, and those whose whole iteration is.
Dispatched == DOMAIN raised

Finished == DOMAIN pipeline_records

\* C1: when run() is over a non-empty pipeline list, every declared step was
\* dispatched exactly once and pipeline_records holds one record per declared step,
\* the i-th with the id and the kind of the i-th declared step, whether or not a
\* step failed; while the loop runs, the records are those of the steps before idx.
C1_OneRecordPerStepInOrder ==
    /\ pc = "done" =>
          /\ Len(pipeline_records) = Len(pipelines)
          /\ Len(raised) = Len(pipelines)
    /\ pc = "loop" => Len(pipeline_records) = idx - 1 /\ Len(raised) = idx - 1
    /\ \A i \in Finished :
          /\ i <= Len(pipelines)
          /\ pipeline_records[i].id = pipelines[i].id
          /\ pipeline_records[i].kind = pipelines[i].kind

\* A finished run of two steps of which the first failed and the second did not.
C1_Witness ==
    /\ pc = "done"
    /\ Len(pipelines) = 2
    /\ raised[1].raised
    /\ ~raised[2].raised
    /\ Len(pipeline_records) = 2

\* C2: a step whose dispatch raised has its iteration finished (the exception does
\* not leave run()), and the context holds under its id the empty default of its
\* kind: {storeHouse: []} for the five storehouse kinds, {urls: []} for
\* remote_urls, {} otherwise; every dispatched step has a payload in the context.
C2_FailedStepGetsDefaultPayload ==
    /\ \A i \in Dispatched : pipelines[i].id \in DOMAIN context
    /\ \A i \in Dispatched :
          raised[i].raised =>
             /\ i \in Finished
             /\ Payload(pipelines[i].id) =
                   (IF pipelines[i].kind \in KnownKinds THEN [storeHouse |-> <<>>]
                    ELSE IF pipelines[i].kind = "remote_urls" THEN [urls |-> <<>>]
                    ELSE EmptyDict)

\* A failed remote_storehouse step, and after it a copy_route step that looked its
\* id up and found the default payload.
C2_Witness ==
    /\ pc = "done"
    /\ Len(pipelines) = 2
    /\ pipelines[1].kind = "remote_storehouse"
    /\ raised[1].raised
    /\ pipelines[2].kind = "copy_route"
    /\ pipelines[2].input = pipelines[1].id
    /\ ~raised[2].raised
    /\ returned[2] = [storeHouse |-> <<>>]

\* C7: with no pipeline configured, run() raises before anything else: no step is
\* dispatched, no file is written, and the records, the context and the artifact
\* registry stay empty.
C7_NoPipelinesFailsTheRun ==
    (pipelines = <<>> /\ pc # "init") =>
        /\ pc = "raised"
        /\ run_error = MsgNoPipelines
        /\ raised = <<>>
        /\ writes = <<>>
        /\ DOMAIN files = {}
        /\ pipeline_records = <<>>
        /\ DOMAIN context = {}
        /\ artifacts = <<>>

\* run() was called with no pipeline configured.
C7_Witness == pipelines = <<>> /\ pc = "raised"

\* C3 (as stated): once run() is called with at least one pipeline it never ends
\* with an exception, whatever a dispatch or the level-2 expansion meets (malformed
\* level-2 responses included), and a finished run has written both summaries.
C3_RunNeverAbortsPartWay ==
    pipelines # <<>> =>
        /\ pc # "raised"
        /\ pc = "done" => {SummaryPath, DomesticLinksPath} \subseteq DOMAIN files

\* The ids of the steps declared before position i.
EarlierIds(i) == {pipelines[j].id : j \in 1..(i - 1)}

\* Step i refers to an id that no earlier step has.
UnresolvedReference(i) ==
    \/ /\ pipelines[i].kind = "merge_storehouse"
       /\ \E k \in DOMAIN pipelines[i].inputs : pipelines[i].inputs[k] \notin EarlierIds(i)
    \/ /\ pipelines[i].kind = "copy_route"
       /\ pipelines[i].input \notin EarlierIds(i)

\* Step i has one of the configuration errors: local_urls_storehouse without
\* expand, an unknown kind, a reference that resolves to nothing.
ConfigurationError(i) ==
    \/ pipelines[i].kind = "local_urls_storehouse" /\ DOMAIN pipelines[i].expand = {}
    \/ pipelines[i].kind \notin KnownKinds
    \/ UnresolvedReference(i)

\* C4 (as stated): a configuration error met inside a step ends the whole run with
\* an exception: the step's iteration is not finished and run() has raised.
C4_ConfigurationErrorAbortsRun ==
    \A i \in Dispatched :
        ConfigurationError(i) => (pc = "raised" /\ i \notin Finished)

\* C4 (amended): a configuration error met inside a step fails that step only: the
\* dispatch raises, the step's iteration finishes with the empty default of its
\* kind in the context and a record carrying the error, and the exception run()
\* may end with is never that of the step.
C4_ConfigurationErrorFailsTheStepOnly ==
    \A i \in Dispatched :
        ConfigurationError(i) =>
            /\ raised[i].raised
            /\ i \in Finished
            /\ "error" \in DOMAIN pipeline_records[i]
            /\ pipeline_records[i].error = raised[i].msg
            /\ Payload(pipelines[i].id) =
                  (IF pipelines[i].kind \in KnownKinds THEN [storeHouse |-> <<>>]
                   ELSE IF pipelines[i].kind = "remote_urls" THEN [urls |-> <<>>]
                   ELSE EmptyDict)
            /\ run_error # raised[i].msg
            /\ pc = "done" => {SummaryPath, DomesticLinksPath} \subseteq DOMAIN files

\* A finished run whose first step had a configuration error and whose second
\* step was executed without one.
C4_Witness ==
    /\ pc = "done"
    /\ Len(pipelines) = 2
    /\ ConfigurationError(1)
    /\ pipelines[1].kind = "local_urls_storehouse"
    /\ ~raised[2].raised
    /\ SummaryPath \in DOMAIN files

\* C5: the context holds exactly the ids of the dispatched steps, which are the
\* first steps of the declaration; a merge_storehouse or copy_route step that
\* succeeded referred to earlier steps only; one that refers to an undeclared id,
\* a later step or itself raises, gets the empty storeHouse payload and a record,
\* and the loop goes on after it.
C5_ReferencesResolveToEarlierStepsOnly ==
    /\ DOMAIN context = {pipelines[i].id : i \in Dispatched}
    /\ Len(raised) <= Len(pipelines)
    /\ \A i \in Dispatched :
          /\ (pipelines[i].kind \in {"merge_storehouse", "copy_route"} /\ ~raised[i].raised)
                => ~UnresolvedReference(i)
          /\ UnresolvedReference(i) =>
                /\ raised[i].raised
                /\ i \in Finished
                /\ Payload(pipelines[i].id) = [storeHouse |-> <<>>]
                /\ pc = "loop" => idx > i

\* A finished run whose first step is a merge_storehouse referring to itself or to
\* the step after it, and whose second step succeeded.
C5_Witness ==
    /\ pc = "done"
    /\ Len(pipelines) = 2
    /\ pipelines[1].kind = "merge_storehouse"
    /\ UnresolvedReference(1)
    /\ pipelines[1].inputs[1] \in {pipelines[1].id, pipelines[2].id}
    /\ ~raised[2].raised
    /\ Len(returned[2].storeHouse) > 0

\* C6 (as stated): the record of a step has an error field exactly when the
\* dispatch of the step raised, and the field is then the text of the exception.
C6_ErrorFieldIffDispatchRaised ==
    \A i \in Finished :
        /\ ("error" \in DOMAIN pipeline_records[i]) <=> raised[i].raised
        /\ raised[i].raised => pipeline_records[i].error = raised[i].msg

\* The position of the step declared with id ref.
StepOf(ref) == CHOOSE j \in DOMAIN pipelines : pipelines[j].id = ref

\* The storeHouse lists of the referenced steps, as their steps left them, one
\* after the other in the order of the references.
RECURSIVE ConcatInputs(_)
ConcatInputs(inputs) ==
    IF inputs = <<>> THEN <<>>
    ELSE GetOr(committed[StepOf(Head(inputs))], "storeHouse", <<>>)
            \o ConcatInputs(Tail(inputs))

\* The entries of c from position k on whose sourceUrl no entry before them has.
RECURSIVE KeepFirst(_, _)
KeepFirst(c, k) ==
    IF k > Len(c) THEN <<>>
    ELSE (IF \E j \in 1..(k - 1) : c[j].sourceUrl = c[k].sourceUrl
          THEN <<>> ELSE <<c[k]>>) \o KeepFirst(c, k + 1)

NoEqualSourceUrls(l) ==
    \A a, b \in DOMAIN l : a # b => l[a].sourceUrl # l[b].sourceUrl

\* The merge_storehouse steps that are dispatched and raised nothing.
MergedSteps ==
    {i \in Dispatched : pipelines[i].kind = "merge_storehouse" /\ ~raised[i].raised}

Referenced(i) ==
    IF pipelines[i].kind = "copy_route" THEN {StepOf(pipelines[i].input)}
    ELSE {StepOf(pipelines[i].inputs[k]) : k \in DOMAIN pipelines[i].inputs}

\* The entry objects of the payload object the context holds under id.
EntryObjects(id) ==
    LET d == payload_heap[context[id]]
    IN  IF "storeHouse" \in DOMAIN d THEN Range(d.storeHouse) ELSE {}

\* C9: the payload _run_copy_route returns equals the payload of its source as the
\* source's step left it; the payload of a copy_route or merge_storehouse step is
\* another object than the payloads it refers to and shares no entry object with
\* them; and whatever the step does to its payload afterwards, the context payload
\* of every referenced step stays as that step left it.
C9_CopiesAreDeep ==
    \A i \in Dispatched :
        (pipelines[i].kind \in {"copy_route", "merge_storehouse"} /\ ~raised[i].raised) =>
            /\ pipelines[i].kind = "copy_route" =>
                  returned[i] = committed[StepOf(pipelines[i].input)]
            /\ \A j \in Referenced(i) :
                  /\ j \in Finished
                  /\ context[pipelines[i].id] # context[pipelines[j].id]
                  /\ EntryObjects(pipelines[i].id) \cap EntryObjects(pipelines[j].id) = {}
                  /\ Payload(pipelines[j].id) = committed[j]

\* A finished copy_route step whose entries the expansion rewrote and the priority
\* reordered after the copy, the source still being as its step left it.
C9_Witness ==
    /\ pc = "done"
    /\ Len(pipelines) = 2
    /\ pipelines[2].kind = "copy_route"
    /\ pipelines[2].input = pipelines[1].id
    /\ ~raised[2].raised
    /\ warehouse_priority = pipelines[2].id
    /\ Len(returned[2].storeHouse) = 2
    /\ returned[2].storeHouse[1].sourceName # returned[2].storeHouse[2].sourceName
    /\ Payload(pipelines[2].id).storeHouse[1].sourceName = returned[2].storeHouse[2].sourceName
    /\ Payload(pipelines[2].id).storeHouse[1].sourceUrl # returned[2].storeHouse[2].sourceUrl
    /\ Payload(pipelines[1].id) = returned[2]

\* The call of _fetch_json is over.
FetchOver == fetch.phase \in {"returned", "raised"}

\* What C10 says of a call with retries = N, N being fetch.attempts.
FetchRetryContract ==
    /\ Len(fetch.outcomes) <= fetch.attempts
    /\ \A k \in 1..(Len(fetch.outcomes) - 1) : fetch.outcomes[k] \in FetchErrors
    /\ (FetchOver /\ \A k \in DOMAIN fetch.outcomes : fetch.outcomes[k] \in FetchErrors) =>
          /\ fetch.phase = "raised"
          /\ Len(fetch.outcomes) = fetch.attempts
          /\ fetch.result = fetch.outcomes[Len(fetch.outcomes)]
    /\ (FetchOver /\ \E k \in DOMAIN fetch.outcomes : fetch.outcomes[k] \in FetchValues) =>
          /\ fetch.phase = "returned"
          /\ fetch.result = fetch.outcomes[Len(fetch.outcomes)]
          /\ fetch.result \in FetchValues
    /\ fetch.phase = "request" => Len(fetch.outcomes) = fetch.attempt - 1

Host(url) == SubSeq(Netloc(url), 1, FirstIn(Netloc(url), {":"}, 1) - 1)

\* The name and the URL of an entry a sanitizer emitted.
EmittedName(e) == IF "sourceName" \in DOMAIN e THEN e.sourceName ELSE e.name

EmittedUrl(e) == IF "sourceUrl" \in DOMAIN e THEN e.sourceUrl ELSE e.url

\* A sanitizer has returned a list.
SanitizerReturned == call.phase \in {"returned", "again"} /\ ~call.result.raised

\* C11 (as stated): no entry a sanitizer emits has a lower-cased name containing
\* a blocked keyword, a lower-cased URL containing a blocked URL substring, or a
\* host ending, case-insensitively, with a blocked domain suffix.
C11_NoBlockedEntryEmitted ==
    SanitizerReturned =>
        \A i \in DOMAIN call.result.value :
            /\ \A k \in DOMAIN filters.blocked_keywords :
                  ~Contains(Lower(EmittedName(call.result.value[i])),
                            Lower(filters.blocked_keywords[k]))
            /\ \A k \in DOMAIN filters.blocked_url_keywords :
                  ~Contains(Lower(EmittedUrl(call.result.value[i])),
                            Lower(filters.blocked_url_keywords[k]))
            /\ \A k \in DOMAIN filters.blocked_domains :
                  ~EndsWith(Lower(Host(EmittedUrl(call.result.value[i]))),
                            Lower(filters.blocked_domains[k]))

\* The dispatched steps run() expands.
ExpandedSteps == {i \in Dispatched : DoesExpand(pipelines[i])}

\* The storeHouse list the step at i had when its dispatch was over.
Dispatched_storeHouse(i) == GetOr(returned[i], "storeHouse", <<>>)

\* The storeHouse list of the step at i as the expansion left it: the list the
\* context holds, with the move of the last entry to the front undone.
AfterExpansion(i) ==
    LET l == GetOr(Payload(pipelines[i].id), "storeHouse", <<>>)
    IN  IF i \in Finished /\ warehouse_priority = pipelines[i].id /\ l # <<>>
        THEN Tail(l) \o <<Head(l)>>
        ELSE l

\* The artifacts the expansion of the step at i registered.
NestedArtifacts(i) ==
    {a \in DOMAIN artifacts :
        /\ artifacts[a].type = "storehouse"
        /\ SubSeq(artifacts[a].id, 1, Len(pipelines[i].id) + 1) = pipelines[i].id \o <<"::">>}

\* The entries of the step at i whose level-2 fetch gave something of kinds.
EntriesGiven(i, kinds) ==
    {k \in DOMAIN read[i].level2 : read[i].level2[k] \in kinds}

\* What C12 says of the entries whose level-2 fetch gave one of kinds.
FailedEntriesLeftAlone(kinds) ==
    \A i \in ExpandedSteps :
        EntriesGiven(i, kinds) # {} =>
            /\ i \in Finished
            /\ \A k \in EntriesGiven(i, kinds) :
                  AfterExpansion(i)[k] = Dispatched_storeHouse(i)[k]
            /\ Cardinality(NestedArtifacts(i)) =
                  Cardinality(DOMAIN read[i].level2 \ EntriesGiven(i, kinds))

\* C12 (as stated): an entry whose level-2 fetch fails, or gives a response that
\* is no usable list of entries, stays as it was, gets no artifact, and stops
\* neither the expansion of the other entries nor the step.
C12_FailedEntryIsSkipped == FailedEntriesLeftAlone(Level2Kinds \ {"object"})

\* The sourceName and sourceRemark of the entries of l, which no expansion changes
\* in an entry that has both.
NamesOf(l) == [k \in DOMAIN l |-> <<l[k].sourceName, l[k].sourceRemark>>]

\* The finished steps the priority setting names, with a list of entries.
PrioritizedSteps ==
    {i \in Finished : /\ warehouse_priority = pipelines[i].id
                      /\ Dispatched_storeHouse(i) # <<>>}

\* What C13 says of the step at i: the context holds the list of the step with
\* its last entry moved to the front, and so does the output file.
LastEntryInFront(i) ==
    /\ NamesOf(Payload(pipelines[i].id).storeHouse) =
          LastToFront(NamesOf(Dispatched_storeHouse(i)))
    /\ ~DoesExpand(pipelines[i]) =>
          Payload(pipelines[i].id).storeHouse = LastToFront(Dispatched_storeHouse(i))
    /\ pipelines[i].output # None =>
          files[pipelines[i].output] = Payload(pipelines[i].id)

\* C13 (as stated): whenever warehouse_priority names the id of a step, the last
\* entry of the step's list is moved to the front, in the context and on disk.
C13_PriorityMovesLastEntryToFront ==
    \A i \in PrioritizedSteps : LastEntryInFront(i)

\* The nested file of a local_urls_storehouse step that configures no store name:
\* the default name has no ASCII character, so its slug is "source".
LocalUrlsNestedPath == <<"dist/routes/storehouses", "/", "source", ".json">>

\* The first public URL of a path: from the first configured domestic template,
\* from the default one when none is configured.
FirstPublicUrl(path) ==
    IF domestic.templates = <<>>
    THEN <<"https://raw.githubusercontent.com/">> \o PublicRepo \o <<"/">> \o PublicBranch
            \o <<"/">> \o path
    ELSE <<"https://a/">> \o PublicRepo \o <<"@">> \o PublicBranch \o <<"/">> \o path

\* The sanitized entries of the local list the step at i read: an entry without
\* a name gets the id of the step, the entry named spam is blocked.
LocalUrlsExpected(i) ==
    Flatten([k \in DOMAIN read[i].names |->
                IF read[i].names[k] = "U1"
                THEN << [name |-> pipelines[i].id, url |-> Url1] >>
                ELSE <<>>])

\* How many times path was written, and the storehouse artifacts registered for it.
WritesOf(path) == Cardinality({k \in DOMAIN writes : writes[k] = path})

StorehouseArtifactsOf(path) ==
    {a \in DOMAIN artifacts : artifacts[a].type = "storehouse" /\ artifacts[a].path = path}

LocalUrlsSteps == {i \in Dispatched : pipelines[i].kind = "local_urls_storehouse"}

\* C14: a local_urls_storehouse step with expand whose local list was read
\* registers one nested artifact, written once, that holds the sanitized entries
\* of the list when the step is over; its payload is one entry whose sourceUrl is
\* the first public URL of the nested file, and run() fetches no level-2 list for
\* it and leaves the payload as returned. Without expand the step raises and
\* neither writes nor registers a nested file.
C14_LocalUrlsSelfExpands ==
    /\ WritesOf(LocalUrlsNestedPath) = Cardinality(StorehouseArtifactsOf(LocalUrlsNestedPath))
    /\ (\A i \in LocalUrlsSteps : raised[i].raised) => LocalUrlsNestedPath \notin DOMAIN files
    /\ \A i \in LocalUrlsSteps :
          /\ read[i].level2 = <<>>
          /\ DOMAIN pipelines[i].expand = {} =>
                /\ raised[i].raised
                /\ NestedArtifacts(i) = {}
          /\ raised[i].raised => NestedArtifacts(i) = {}
          /\ ~raised[i].raised =>
                /\ Cardinality(NestedArtifacts(i)) = 1
                /\ NestedArtifacts(i) \subseteq StorehouseArtifactsOf(LocalUrlsNestedPath)
                /\ Len(returned[i].storeHouse) = 1
                /\ returned[i].storeHouse[1].sourceUrl = FirstPublicUrl(LocalUrlsNestedPath)
                /\ Payload(pipelines[i].id) = returned[i]
                /\ i = Len(raised) =>
                      files[LocalUrlsNestedPath] = [urls |-> LocalUrlsExpected(i)]

\* A finished local_urls_storehouse step with expand whose local list held two
\* entries that both passed the blocklists.
C14_Witness ==
    \E i \in LocalUrlsSteps :
        /\ i = Len(raised)
        /\ i \in Finished
        /\ ~raised[i].raised
        /\ read[i].names = <<"U1", "U1">>
        /\ Len(files[LocalUrlsNestedPath].urls) = 2
        /\ Len(Payload(pipelines[i].id).storeHouse) = 1

\* The artifact records of path.
ArtifactsOf(path) == {a \in DOMAIN artifacts : artifacts[a].path = path}

\* C15 (as stated): no path has two artifact records, and when run() is over
\* every path written has exactly one.
C15_EveryWrittenFileRegisteredOnce ==
    /\ \A a, b \in DOMAIN artifacts : a # b => artifacts[a].path # artifacts[b].path
    /\ pc = "done" => \A path \in DOMAIN files : Cardinality(ArtifactsOf(path)) = 1

\* The local_storehouse steps whose file held a list of bare URL strings.
BareStringSteps ==
    {i \in Dispatched : /\ pipelines[i].kind = "local_storehouse"
                        /\ read[i].kind = "bare_strings"}

\* C16 (as stated): a local_storehouse step whose file holds a list of bare URL
\* strings succeeds, and its storeHouse has one entry per unblocked string, named
\* after the origin of the step, in the order of the file.
C16_BareUrlStringsAreWrapped ==
    \A i \in BareStringSteps :
        /\ ~raised[i].raised
        /\ Dispatched_storeHouse(i) =
              << [sourceName |-> pipelines[i].id, sourceUrl |-> Url1,
                  sourceRemark |-> pipelines[i].id] >>

\* The nested file of an entry named name: the names of the model are "A", whose
\* slug is "a", "B!", whose slug is "b", and the default store name of a
\* local_urls_storehouse step, which has no ASCII character and whose slug is
\* "source".
NestedPathOf(name) ==
    <<"dist/routes/storehouses", "/">>
        \o (IF name = NameA THEN <<"a">> ELSE IF name = NameB THEN <<"b">> ELSE <<"source">>)
        \o <<".json">>

\* The entries of the step at i whose level-2 list was fetched and held entries:
\* the loop reached them, and the fetch gave an object with a list of objects.
ExpandedEntries(i) ==
    {k \in DOMAIN read[i].level2 :
        /\ read[i].level2[k] = "object"
        /\ \A j \in 1..(k - 1) : read[i].level2[j] # "bare_strings"}

\* C17: an entry whose level-2 list was fetched has its sourceUrl rewritten to the
\* first public URL of the nested file written for it, keeps its name and the
\* remark it had, and has a storehouse artifact registered with its original URL
\* and its name as metadata; the step registers one such artifact per entry.
C17_ExpandedEntryIsRewritten ==
    \A i \in ExpandedSteps :
        /\ Cardinality(NestedArtifacts(i)) = Cardinality(ExpandedEntries(i))
        /\ \A k \in ExpandedEntries(i) :
              /\ AfterExpansion(i)[k] =
                    [sourceName |-> Dispatched_storeHouse(i)[k].sourceName,
                     sourceUrl |-> FirstPublicUrl(
                                      NestedPathOf(Dispatched_storeHouse(i)[k].sourceName)),
                     sourceRemark |-> Dispatched_storeHouse(i)[k].sourceRemark]
              /\ NestedPathOf(Dispatched_storeHouse(i)[k].sourceName) \in DOMAIN files
              /\ \E a \in NestedArtifacts(i) :
                    /\ artifacts[a].path =
                          NestedPathOf(Dispatched_storeHouse(i)[k].sourceName)
                    /\ artifacts[a].metadata =
                          [original_level2 |-> Dispatched_storeHouse(i)[k].sourceUrl,
                           store |-> Dispatched_storeHouse(i)[k].sourceName]

\* A finished step with an expanded entry that came with a remark of its own.
C17_Witness ==
    \E i \in ExpandedSteps \cap Finished :
        \E k \in ExpandedEntries(i) :
            /\ Dispatched_storeHouse(i)[k].sourceRemark = <<"r">>
            /\ Dispatched_storeHouse(i)[k].sourceUrl = Url2
            /\ AfterExpansion(i)[k].sourceUrl # Url2
            /\ AfterExpansion(i)[k].sourceRemark = <<"r">>

\* The sanitized level-2 list of a level-1 URL: of the two entries the response
\* holds, the blocklist of the run drops the second.
Level2Expected(url) == [urls |-> << [name |-> <<"n">>, url |-> url \o <<"?", "a">>] >>]

\* C18 (as stated): when run() is over, the nested file of every expanded entry of
\* every step holds the sanitized level-2 list fetched from the original URL of
\* that entry.
C18_NestedFileHoldsOwnList ==
    pc = "done" =>
        \A i \in ExpandedSteps :
            \A k \in ExpandedEntries(i) :
                files[NestedPathOf(Dispatched_storeHouse(i)[k].sourceName)] =
                    Level2Expected(Dispatched_storeHouse(i)[k].sourceUrl)

\* C19: the sleep after the failed attempt number k is 2 seconds for k = 1, 4 for
\* k = 2 and 5 from k = 3 on; while the call is under way there is one sleep per
\* failed attempt, and a call that is over after k >= 1 attempts slept k - 1
\* times: not after the last failed attempt, not after a success.
C19_BackoffBetweenAttempts ==
    /\ \A k \in DOMAIN fetch.sleeps :
          fetch.sleeps[k] = (IF k = 1 THEN 2 ELSE IF k = 2 THEN 4 ELSE 5)
    /\ fetch.phase = "request" => Len(fetch.sleeps) = Len(fetch.outcomes)
    /\ (FetchOver /\ fetch.outcomes # <<>>) => Len(fetch.sleeps) = Len(fetch.outcomes) - 1
    /\ fetch.outcomes = <<>> => fetch.sleeps = <<>>

\* Four failed attempts with retries = 4: three sleeps, the third capped.
C19_Witness ==
    /\ fetch.phase = "raised"
    /\ fetch.attempts = 4
    /\ Len(fetch.outcomes) = 4
    /\ fetch.sleeps = <<2, 4, 5>>

\* The first of the values of e under keys a and b that is neither absent nor
\* empty, fallback when there is none.
FirstGiven(e, a, b, fallback) ==
    IF a \in DOMAIN e /\ e[a] # <<>> THEN e[a]
    ELSE IF b \in DOMAIN e /\ e[b] # <<>> THEN e[b]
    ELSE fallback

\* s without the blanks at its ends.
Trimmed(s) ==
    LET inner == {k \in DOMAIN s : s[k] # " "}
    IN  IF inner = {} THEN <<>>
        ELSE SubSeq(s, CHOOSE k \in inner : \A j \in inner : k <= j,
                       CHOOSE k \in inner : \A j \in inner : k >= j)

\* The canonical form of a raw entry.
Canonical(e, origin) ==
    [sourceName |-> Trimmed(FirstGiven(e, "sourceName", "name", <<>>)),
     sourceUrl |-> Trimmed(FirstGiven(e, "sourceUrl", "url", <<>>)),
     sourceRemark |-> FirstGiven(e, "sourceRemark", "remark", origin)]

\* The raw entry survives: it has a name and a URL, and no blocklist rule of the
\* code matches them.
Survives(e, origin) ==
    /\ Canonical(e, origin).sourceName # <<>>
    /\ Canonical(e, origin).sourceUrl # <<>>
    /\ ~IsBlocked(Canonical(e, origin).sourceName, Canonical(e, origin).sourceUrl,
                  BlockList(filters, "blocked_keywords"),
                  BlockList(filters, "blocked_url_keywords"),
                  BlockList(filters, "blocked_domains"))

\* The canonical forms of the surviving entries of raw, in the order of raw.
RECURSIVE Survivors(_, _)
Survivors(raw, origin) ==
    IF raw = <<>> THEN <<>>
    ELSE (IF Survives(Head(raw), origin) THEN <<Canonical(Head(raw), origin)>> ELSE <<>>)
            \o Survivors(Tail(raw), origin)

\* _sanitize_storehouse has returned.
StorehouseSanitized ==
    call.phase \in {"returned", "again"} /\ call.fn = "_sanitize_storehouse"

\* C20: _sanitize_storehouse returns, in the order of its input and without
\* dropping entries of equal sourceUrl, the canonical forms of the entries that
\* have a name and a URL and are not blocked: trimmed non-empty sourceName and
\* sourceUrl, the entry's own remark or else origin; applied to its own output it
\* returns the same list.
C20_SanitizeStorehouseCanonical ==
    StorehouseSanitized =>
        /\ ~call.result.raised
        /\ call.result.value = Survivors(SanitizeEntries(call.names), call.origin)
        /\ \A k \in DOMAIN call.result.value :
              /\ call.result.value[k].sourceName # <<>>
              /\ call.result.value[k].sourceUrl # <<>>
              /\ Trimmed(call.result.value[k].sourceName) = call.result.value[k].sourceName
              /\ Trimmed(call.result.value[k].sourceUrl) = call.result.value[k].sourceUrl
        /\ call.phase = "again" => call.again = call.result

\* Two entries with the same URL once trimmed, the second without a remark: both
\* are kept, and the second application has returned.
C20_Witness ==
    /\ StorehouseSanitized
    /\ call.phase = "again"
    /\ call.names = <<"plain", "same_url">>
    /\ Len(call.result.value) = 2
    /\ call.result.value[1].sourceUrl = call.result.value[2].sourceUrl
    /\ call.result.value[2].sourceRemark = call.origin

\* The mirror URLs of a path under the configured domestic templates, in the
\* order of the templates: none when no template is configured.
ConfiguredMirrors(path) ==
    IF domestic.templates = <<>> THEN <<>>
    ELSE << <<"https://a/">> \o PublicRepo \o <<"@">> \o PublicBranch \o <<"/">> \o path,
            <<"https://b/">> \o PublicBranch \o <<"/">> \o PublicRepo \o <<"/">> \o path >>

\* The same, with the one URL of the default template when no template is
\* configured.
MirrorsOrDefault(path) ==
    IF domestic.templates = <<>>
    THEN << <<"https://raw.githubusercontent.com/">> \o PublicRepo \o <<"/">>
              \o PublicBranch \o <<"/">> \o path >>
    ELSE ConfiguredMirrors(path)

\* The domestic-mirror list on disk has one item per registered artifact, in
\* registration order, with the artifact's id, type, path and metadata.
DomesticListFollowsRegistry ==
    /\ DomesticLinksPath \in DOMAIN files
    /\ Len(files[DomesticLinksPath]) = Len(artifacts)
    /\ \A k \in DOMAIN artifacts :
          /\ files[DomesticLinksPath][k].id = artifacts[k].id
          /\ files[DomesticLinksPath][k].type = artifacts[k].type
          /\ files[DomesticLinksPath][k].path = artifacts[k].path
          /\ files[DomesticLinksPath][k].metadata = artifacts[k].metadata

\* C21 as stated: at the end of a run the domestic-mirror list has one item per
\* registered artifact, in registration order, with the artifact's id, type,
\* path and metadata, and exactly one mirror URL per configured domestic
\* template, in template order, with repo, branch and path substituted.
C21_OneMirrorPerConfiguredTemplate ==
    pc = "done" =>
        /\ DomesticListFollowsRegistry
        /\ \A k \in DOMAIN artifacts :
              files[DomesticLinksPath][k].mirrors = ConfiguredMirrors(artifacts[k].path)

\* C21, amended: the same, where a run without configured domestic templates
\* gives every item the one mirror URL of the default template.
C21_OneMirrorPerTemplateOrDefault ==
    pc = "done" =>
        /\ DomesticListFollowsRegistry
        /\ \A k \in DOMAIN artifacts :
              files[DomesticLinksPath][k].mirrors = MirrorsOrDefault(artifacts[k].path)

\* A finished run with two configured templates and two registered artifacts, a
\* nested file and the output of the step, each listed with two mirrors.
C21_Witness ==
    /\ pc = "done"
    /\ domestic.templates # <<>>
    /\ Len(artifacts) >= 2
    /\ artifacts[1].type = "storehouse"
    /\ artifacts[2].type = "pipeline"
    /\ artifacts[1].path # artifacts[2].path
    /\ Len(files[DomesticLinksPath]) = Len(artifacts)
    /\ \A k \in DOMAIN artifacts : Len(files[DomesticLinksPath][k].mirrors) = 2

\* The finished steps that write an output file.
WritingSteps == {i \in Finished : Truthy(pipelines[i].output)}

\* The storeHouse list in the output file of the expanding step at i, with the
\* move of the last entry to the front undone.
WrittenAfterExpansion(i) ==
    LET l == GetOr(files[pipelines[i].output], "storeHouse", <<>>)
    IN  IF warehouse_priority = pipelines[i].id /\ l # <<>>
        THEN Tail(l) \o <<Head(l)>>
        ELSE l

\* The copy_route and merge_storehouse steps whose dispatch raised nothing.
ReadingSteps ==
    {j \in Dispatched :
        pipelines[j].kind \in {"copy_route", "merge_storehouse"} /\ ~raised[j].raised}

\* C22: the step ids being unique, the output file of a finished step holds the
\* payload the step ended with, after expansion and priority reordering, and the
\* context holds that same payload under the step's id from then on; the file of
\* an expanding step has the rewritten sourceUrl of every expanded entry, not the
\* one its source gave; and a later copy_route or merge_storehouse step
\* reads the payloads of the steps it refers to as those steps ended with them.
C22_OutputIsFinalPayload ==
    /\ \A a, b \in DOMAIN pipelines : a # b => pipelines[a].id # pipelines[b].id
    /\ \A i \in Finished : Payload(pipelines[i].id) = committed[i]
    /\ \A i \in WritingSteps :
          /\ files[pipelines[i].output] = committed[i]
          /\ files[pipelines[i].output] = Payload(pipelines[i].id)
          /\ i \in ExpandedSteps =>
                \A k \in ExpandedEntries(i) :
                    /\ WrittenAfterExpansion(i)[k].sourceUrl = AfterExpansion(i)[k].sourceUrl
                    /\ pipelines[i].kind \notin {"copy_route", "merge_storehouse"} =>
                          WrittenAfterExpansion(i)[k].sourceUrl
                              # Dispatched_storeHouse(i)[k].sourceUrl
    /\ \A j \in ReadingSteps :
          /\ \A i \in Referenced(j) : i < j /\ i \in Finished
          /\ pipelines[j].kind = "copy_route" =>
                /\ returned[j] = committed[StepOf(pipelines[j].input)]
                /\ StepOf(pipelines[j].input) \in WritingSteps =>
                      returned[j] = files[pipelines[StepOf(pipelines[j].input)].output]
          /\ pipelines[j].kind = "merge_storehouse" =>
                returned[j].storeHouse = KeepFirst(ConcatInputs(pipelines[j].inputs), 1)

\* A finished run whose first step expanded two entries of different names and
\* wrote its output, and whose second step copied it, was reordered by the
\* priority and wrote its own output: the copy is the content of the first file,
\* not what the first dispatch had returned, and the second file has the order
\* the second step ended with.
C22_Witness ==
    /\ pc = "done"
    /\ Len(pipelines) = 2
    /\ 1 \in ExpandedSteps \cap WritingSteps
    /\ ExpandedEntries(1) = {1, 2}
    /\ returned[1].storeHouse[1].sourceName # returned[1].storeHouse[2].sourceName
    /\ pipelines[2].kind = "copy_route"
    /\ 2 \in ReadingSteps \cap ExpandedSteps \cap WritingSteps
    /\ warehouse_priority = pipelines[2].id
    /\ returned[2] = files[pipelines[1].output]
    /\ returned[2] # returned[1]
    /\ files[pipelines[2].output] = Payload(pipelines[2].id)
    /\ files[pipelines[2].output].storeHouse[1].sourceName
          = returned[2].storeHouse[2].sourceName

=============================================================================
